---- MODULE Spec2Model ----
(***************************************************************************)
(* BrainCycleAnalysis: graph construction (create_mini_brain), the         *)
(* discrete-time activation automaton in its three variants                *)
(* (activate_mini_brain, activate_cycles, simulate_activation), cycle      *)
(* enumeration under a deadline (detect_cycles) and hub detection          *)
(* (find_overlapping_hubs).                                                *)
(***************************************************************************)
EXTENDS Integers, Sequences, FiniteSets, TLC

\* ------------------------------------------------------------------ bounds
\* largest steps argument tried
MaxSteps == 3
\* longest additional_edges list the simulated graphs are built from
MaxExtra == 1
\* largest threshold a neuron_thresholds dict gives a neuron
MaxThreshold == 2
\* largest inhibition_threshold tried for activate_cycles
MaxInhibition == 2
\* longest additional_edges list create_mini_brain is called with
MaxAdditional == 2
\* largest max_length detect_cycles is called with
MaxCycleLength == 3
\* longest cycle list find_overlapping_hubs is called with
MaxCycles == 4
\* largest participation minimum a caller asks for
MaxParticipation == 3

\* -------------------------------------------------------- program constants
ACTIVATION_STEPS == 10
\* the participation count find_overlapping_hubs compares with
HUB_COUNT == 3

\* ------------------------------------------------------------- graph data
Names == {"A", "B", "C"}
EdgeTypes == {"excitatory", "inhibitory"}
EdgeEntries == Names \X Names \X EdgeTypes
EmptyDict == [n \in {} |-> 0]
\* an optional dict argument: None, or the dict given
None == [is_none |-> TRUE, dict |-> EmptyDict]
Given(d) == [is_none |-> FALSE, dict |-> d]

VARIABLES
  sim,                    \* the simulator being run
  G_nodes,                \* G.nodes()
  G_edges,                \* G.edges() with their "type": triples (u, v, type)
  G_threshold,            \* the "threshold" node attribute, where stored
  initial_active_neurons, \* the initial active collection
  steps,                  \* the number of iterations of the step loop
  inhibition_threshold,   \* activate_cycles' inhibition_threshold
  pc,                     \* position in the call
  iter,                   \* completed iterations of the step loop
  active,                 \* active: node -> bool (previous step's state)
  new_active,             \* new_active: node -> bool (state being computed)
  visited,                \* nodes the inner loop has already handled
  active_nodes,           \* simulate_activation's active_nodes set
  history,                \* the trace being built
  \* create_mini_brain
  cycles,                 \* the cycles argument
  additional_edges,       \* the additional_edges argument
  neuron_thresholds,      \* the neuron_thresholds argument
  bpc,                    \* position in create_mini_brain
  next_edge,              \* index of the next entry of the list being inserted
  calls,                  \* the G.add_edge calls made so far, in order
  \* detect_cycles
  d_entry,                \* which detect_cycles is called
  d_edges,                \* the edges (u, v) of the graph searched
  max_length,             \* the max_length argument
  d_pc,                   \* position in detect_cycles
  alarm,                  \* the SIGALRM timer: "off", "pending" or "fired"
  roots,                  \* start nodes the search has not begun yet
  stack,                  \* the search path: frames [node, todo]
  found,                  \* the list the comprehension has collected so far
  d_result,               \* the value returned to the caller
  cycle_stats,            \* what was written to cycle_stats.json
  timed_out,              \* TimeoutException was raised in this call
  \* find_overlapping_hubs
  h_cycles,               \* the cycles argument
  min_participation,      \* the participation minimum the caller asks for
  h_pc,                   \* position in find_overlapping_hubs
  node_counts,            \* the Counter
  overlapping_nodes       \* the list returned

simVars == <<sim, G_nodes, G_edges, G_threshold, initial_active_neurons, steps,
             inhibition_threshold, pc, iter, active, new_active, visited,
             active_nodes, history>>

simInputs == <<sim, G_nodes, G_edges, G_threshold, initial_active_neurons, steps,
               inhibition_threshold>>

buildInputs == <<cycles, additional_edges, neuron_thresholds>>

buildVars == <<cycles, additional_edges, neuron_thresholds, bpc, next_edge, calls>>

detectVars == <<d_entry, d_edges, max_length, d_pc, alarm, roots, stack, found,
                d_result, cycle_stats, timed_out>>

detectInputs == <<d_entry, d_edges, max_length>>

hubVars == <<h_cycles, min_participation, h_pc, node_counts, overlapping_nodes>>

vars == <<simVars, buildVars, detectVars, hubVars>>

\* what the simulators leave alone
nonSimVars == <<buildVars, detectVars, hubVars>>

\* what detect_cycles leaves alone
nonDetectVars == <<simVars, buildVars, hubVars>>

\* what find_overlapping_hubs leaves alone
nonHubVars == <<simVars, buildVars, detectVars>>

\* what create_mini_brain leaves alone, the graph it builds aside
nonBuildVars == <<sim, initial_active_neurons, steps, inhibition_threshold, pc, iter,
                  active, new_active, visited, active_nodes, history, detectVars, hubVars>>

\* ---------------------------------------------------- networkx DiGraph
\* G.add_edge(u, v, type=t) on the edge set: one entry per ordered pair, the
\* "type" attribute of an existing pair is overwritten
add_edge(edges, u, v, t) ==
  {e \in edges : ~(e[1] = u /\ e[2] = v)} \cup {<<u, v, t>>}

\* the nodes G.add_edge(u, v) registers when absent
add_edge_nodes(nodes, u, v) == nodes \cup {u, v}

\* G.predecessors(node)
predecessors(edges, node) == {e[1] : e \in {x \in edges : x[2] = node}}

\* G[u][v]["type"]
edge_type(edges, u, v) == (CHOOSE e \in edges : e[1] = u /\ e[2] = v)[3]

\* ------------------------------------------------------ create_mini_brain
Range(s) == {s[i] : i \in 1..Len(s)}

\* the nodes of all cycles (G.add_nodes_from(cycle) for each cycle)
cycle_nodes(cs) == UNION {Range(cs[i]) : i \in 1..Len(cs)}

\* the edges "for i in range(len(cycle))" inserts for one cycle, in order
cycle_edge_list(cycle) ==
  [i \in 1..Len(cycle) |-> <<cycle[i], cycle[(i % Len(cycle)) + 1], "excitatory">>]

RECURSIVE all_cycle_edges(_)
all_cycle_edges(cs) ==
  IF cs = <<>> THEN <<>>
  ELSE cycle_edge_list(Head(cs)) \o all_cycle_edges(Tail(cs))

\* a list of (u, v, type) entries inserted one after the other
RECURSIVE insert_all(_, _)
insert_all(edges, entries) ==
  IF entries = <<>> THEN edges
  ELSE insert_all(add_edge(edges, Head(entries)[1], Head(entries)[2], Head(entries)[3]),
                  Tail(entries))

entry_nodes(entries) == UNION {{entries[i][1], entries[i][2]} : i \in 1..Len(entries)}

\* neuron_thresholds as stored: None becomes {node: 1 for the cycle nodes}
stored_thresholds(cs, thresholds) ==
  IF thresholds.is_none THEN [n \in cycle_nodes(cs) |-> 1]
  ELSE thresholds.dict

\* the graph create_mini_brain returns
create_mini_brain(cs, extra, thresholds) ==
  [nodes |-> cycle_nodes(cs) \cup entry_nodes(extra),
   edges |-> insert_all(insert_all({}, all_cycle_edges(cs)), extra),
   threshold |-> stored_thresholds(cs, thresholds)]

\* ------------------------------------------------------------ the inputs
CycleChoices ==
  { <<>>,
    << <<"A">> >>,
    << <<"A", "B">> >>,
    << <<"A", "B", "C">> >>,
    << <<"A", "B", "C">>, <<"A">> >> }

RECURSIVE SeqsUpTo(_, _)
SeqsUpTo(S, n) ==
  IF n = 0 THEN {<<>>}
  ELSE LET shorter == SeqsUpTo(S, n - 1)
       IN  shorter \cup {Append(s, x) : s \in shorter, x \in S}

\* neuron_thresholds: None, or a dict giving the first neuron of the first
\* cycle a threshold (G.nodes[node] of a node that is not in the graph raises
\* KeyError)
ThresholdChoices(cs) ==
  {None} \cup {Given([n \in {m} |-> k]) :
                 m \in (IF cs = <<>> THEN {} ELSE {cs[1][1]}), k \in 0..MaxThreshold}

\* the step counts the simulators are called with: a negative one, none, one
\* and the largest
StepChoices == {-1, 0, 1, MaxSteps}

AllFalse(nodes) == [n \in nodes |-> FALSE]

\* no create_mini_brain call is in progress
NoBuildCall ==
  /\ additional_edges = <<>>
  /\ neuron_thresholds = None
  /\ bpc = "idle"
  /\ next_edge = 1
  /\ calls = <<>>

IdleBuild ==
  /\ cycles = <<>>
  /\ NoBuildCall

\* no detect_cycles call is in progress
IdleDetect ==
  /\ d_entry = "none"
  /\ d_edges = {}
  /\ max_length = 0
  /\ d_pc = "idle"
  /\ alarm = "off"
  /\ roots = {}
  /\ stack = <<>>
  /\ found = <<>>
  /\ d_result = <<>>
  /\ cycle_stats = <<>>
  /\ timed_out = FALSE

\* no find_overlapping_hubs call is in progress
IdleHubs ==
  /\ h_cycles = <<>>
  /\ min_participation = 0
  /\ h_pc = "idle"
  /\ node_counts = EmptyDict
  /\ overlapping_nodes = <<>>

InitRun ==
  /\ NoBuildCall
  /\ IdleDetect
  /\ IdleHubs
  /\ pc = "call"
  /\ iter = 0
  /\ active = EmptyDict
  /\ new_active = EmptyDict
  /\ visited = {}
  /\ active_nodes = {}
  /\ history = <<>>

\* a graph built without neuron_thresholds stores the default on every node
NoThresholds(cs) == {Given(EmptyDict)}

\* the graphs the simulators are run on, built by create_mini_brain with or
\* without a neuron_thresholds argument
InputGraphs(with_thresholds) ==
  {create_mini_brain(y[1], y[2], y[3]) :
     y \in {z \in CycleChoices \X SeqsUpTo(EdgeEntries, MaxExtra)
                    \X UNION {ThresholdChoices(c) \cup NoThresholds(c) : c \in CycleChoices} :
              z[3] \in IF with_thresholds THEN ThresholdChoices(z[1])
                                          ELSE NoThresholds(z[1])}}

\* activate_mini_brain(G, initial_active_neurons, steps)
InitMiniBrain ==
  /\ sim = "activate_mini_brain"
  /\ \E G \in InputGraphs(TRUE) :
       /\ G_nodes = G.nodes
       /\ G_edges = G.edges
       /\ G_threshold = G.threshold
  /\ initial_active_neurons \in SUBSET Names
  /\ steps \in StepChoices
  /\ inhibition_threshold = 0
  /\ cycles = <<>>
  /\ InitRun

\* activate_cycles(G, steps, activation_rate, inhibition_threshold): the graph
\* carries no thresholds, the initial active set is drawn inside the call
InitActivateCycles ==
  /\ sim = "activate_cycles"
  /\ \E G \in InputGraphs(FALSE) :
       /\ G_nodes = G.nodes
       /\ G_edges = G.edges
       /\ G_threshold = G.threshold
  /\ initial_active_neurons = {}
  /\ steps \in StepChoices
  /\ inhibition_threshold \in 1..MaxInhibition
  /\ cycles = <<>>
  /\ InitRun

\* the cycles argument of simulate_activation: no cycle at all, or a first
\* cycle over any set of the names
FirstCycleChoices ==
  {<<>>, <<"A">>, <<"B">>, <<"C">>, <<"A", "B">>, <<"A", "C">>, <<"B", "C">>,
   <<"A", "B", "C">>}

\* simulate_activation(G, cycles): the initial set is set(cycles[0]), the loop
\* runs ACTIVATION_STEPS times
InitSimulateActivation ==
  /\ sim = "simulate_activation"
  /\ \E G \in InputGraphs(FALSE) :
       /\ G_nodes = G.nodes
       /\ G_edges = G.edges
       /\ G_threshold = G.threshold
  /\ cycles \in {<<>>} \cup {<<c>> : c \in FirstCycleChoices}
  /\ initial_active_neurons = IF cycles = <<>> THEN {} ELSE Range(cycles[1])
  /\ steps = ACTIVATION_STEPS
  /\ inhibition_threshold = 0
  /\ InitRun

Init == InitMiniBrain \/ InitActivateCycles \/ InitSimulateActivation

\* ---------------------------------------------------- activate_mini_brain
\* mutant: the excitatory count reads the values already computed in this step
excitatory_inputs_in_place(node) ==
  Cardinality({pr \in predecessors(G_edges, node) :
                 /\ IF pr \in visited THEN new_active[pr] ELSE active[pr]
                 /\ edge_type(G_edges, pr, node) = "excitatory"})

\* sum(1 for pr in G.predecessors(node) if active[pr] and G[pr][node]["type"] == "excitatory")
excitatory_inputs(node) ==
  Cardinality({pr \in predecessors(G_edges, node) :
                 active[pr] /\ edge_type(G_edges, pr, node) = "excitatory"})

\* mutant: the inhibitory count reads the values already computed in this step
inhibitory_inputs_in_place(node) ==
  Cardinality({pr \in predecessors(G_edges, node) :
                 /\ IF pr \in visited THEN new_active[pr] ELSE active[pr]
                 /\ edge_type(G_edges, pr, node) = "inhibitory"})

\* sum(1 for pr in G.predecessors(node) if active[pr] and G[pr][node]["type"] == "inhibitory")
inhibitory_inputs(node) ==
  Cardinality({pr \in predecessors(G_edges, node) :
                 active[pr] /\ edge_type(G_edges, pr, node) = "inhibitory"})

\* G.nodes[node].get("threshold", 1)
activation_threshold(node) ==
  IF node \in DOMAIN G_threshold THEN G_threshold[node] ELSE 1

\* mutant: the activation test is a strict comparison
mini_brain_node_strict(node) ==
  excitatory_inputs(node) > activation_threshold(node) /\ inhibitory_inputs(node) = 0

\* mutant: a node that was active stays active unless inhibited
mini_brain_node_sticky(node) ==
  /\ (excitatory_inputs(node) >= activation_threshold(node) \/ active[node])
  /\ inhibitory_inputs(node) = 0

\* mutant: the activation test accepts one excitatory input fewer
mini_brain_node_off_by_one(node) ==
  /\ excitatory_inputs(node) >= activation_threshold(node) - 1
  /\ inhibitory_inputs(node) = 0

\* the value new_active[node] holds after the two if statements of
\* activate_mini_brain's inner loop
mini_brain_node(node) ==
  LET fired == excitatory_inputs(node) >= activation_threshold(node)
                 /\ inhibitory_inputs(node) = 0
      afterActivation == IF fired THEN TRUE ELSE new_active[node]
  IN  IF inhibitory_inputs(node) > 0 THEN FALSE ELSE afterActivation

\* lines 50-57: active = all False, the initial neurons that are nodes set
\* True, history = []
MB_Enter ==
  /\ pc = "call"
  /\ sim = "activate_mini_brain"
  /\ active' = [n \in G_nodes |-> n \in initial_active_neurons]
  /\ history' = <<>>
  /\ pc' = "for"
  /\ UNCHANGED <<simInputs, iter, new_active, visited, active_nodes>>
  /\ UNCHANGED nonSimVars

\* mutant: the loop runs once more than steps
MB_BeginStep_one_more ==
  /\ pc = "for"
  /\ sim = "activate_mini_brain"
  /\ iter <= steps
  /\ steps >= 0
  /\ new_active' = AllFalse(G_nodes)
  /\ visited' = {}
  /\ pc' = "node"
  /\ UNCHANGED <<simInputs, iter, active, active_nodes, history>>
  /\ UNCHANGED nonSimVars

\* for _ in range(steps): new_active = all False
MB_BeginStep ==
  /\ pc = "for"
  /\ sim = "activate_mini_brain"
  /\ iter < steps
  /\ new_active' = AllFalse(G_nodes)
  /\ visited' = {}
  /\ pc' = "node"
  /\ UNCHANGED <<simInputs, iter, active, active_nodes, history>>
  /\ UNCHANGED nonSimVars

\* mutant: the default threshold is written into the graph when it is read
\* (setdefault instead of get)
MB_VisitNode_setdefault ==
  /\ pc = "node"
  /\ sim = "activate_mini_brain"
  /\ \E node \in G_nodes \ visited :
       /\ new_active' = [new_active EXCEPT ![node] = mini_brain_node(node)]
       /\ visited' = visited \cup {node}
       /\ G_threshold' = [n \in DOMAIN G_threshold \cup {node} |-> activation_threshold(n)]
  /\ UNCHANGED <<sim, G_nodes, G_edges, initial_active_neurons, steps,
                 inhibition_threshold, pc, iter, active, active_nodes, history>>
  /\ UNCHANGED nonSimVars

\* one pass of "for node in G.nodes()"; the order of G.nodes() is the order
\* in which the graph's nodes were inserted, which the arguments do not fix:
\* every order is taken
MB_VisitNode ==
  /\ pc = "node"
  /\ sim = "activate_mini_brain"
  /\ \E node \in G_nodes \ visited :
       /\ new_active' = [new_active EXCEPT ![node] = mini_brain_node(node)]
       /\ visited' = visited \cup {node}
  /\ UNCHANGED <<simInputs, pc, iter, active, active_nodes, history>>
  /\ UNCHANGED nonSimVars

\* active = new_active; history.append(active.copy())
MB_EndStep ==
  /\ pc = "node"
  /\ sim = "activate_mini_brain"
  /\ visited = G_nodes
  /\ active' = new_active
  /\ history' = Append(history, new_active)
  /\ iter' = iter + 1
  /\ pc' = "for"
  /\ UNCHANGED <<simInputs, new_active, visited, active_nodes>>
  /\ UNCHANGED nonSimVars

\* return history
MB_Return ==
  /\ pc = "for"
  /\ sim = "activate_mini_brain"
  /\ iter >= steps
  /\ pc' = "done"
  /\ UNCHANGED <<simInputs, iter, active, new_active, visited, active_nodes, history>>
  /\ UNCHANGED nonSimVars

\* -------------------------------------------------------- activate_cycles
\* mutant: inhibition silences only above inhibition_threshold
activate_cycles_node_above(node) ==
  LET fired == excitatory_inputs(node) > 0
                 /\ inhibitory_inputs(node) <= inhibition_threshold
      afterActivation == IF fired THEN TRUE ELSE new_active[node]
  IN  IF inhibitory_inputs(node) > inhibition_threshold THEN FALSE ELSE afterActivation

\* the value new_active[node] holds after the two if statements of
\* activate_cycles' inner loop
activate_cycles_node(node) ==
  LET fired == excitatory_inputs(node) > 0
                 /\ inhibitory_inputs(node) < inhibition_threshold
      afterActivation == IF fired THEN TRUE ELSE new_active[node]
  IN  IF inhibitory_inputs(node) >= inhibition_threshold THEN FALSE ELSE afterActivation

\* lines 113-119: the initial active nodes are drawn with random.random()
AC_Enter ==
  /\ pc = "call"
  /\ sim = "activate_cycles"
  /\ \E initial_active \in SUBSET G_nodes :
       /\ initial_active_neurons' = initial_active
       /\ active' = [n \in G_nodes |-> n \in initial_active]
  /\ history' = <<>>
  /\ pc' = "for"
  /\ UNCHANGED <<sim, G_nodes, G_edges, G_threshold, steps, inhibition_threshold,
                 iter, new_active, visited, active_nodes>>
  /\ UNCHANGED nonSimVars

AC_BeginStep ==
  /\ pc = "for"
  /\ sim = "activate_cycles"
  /\ iter < steps
  /\ new_active' = AllFalse(G_nodes)
  /\ visited' = {}
  /\ pc' = "node"
  /\ UNCHANGED <<simInputs, iter, active, active_nodes, history>>
  /\ UNCHANGED nonSimVars

AC_VisitNode ==
  /\ pc = "node"
  /\ sim = "activate_cycles"
  /\ \E node \in G_nodes \ visited :
       /\ new_active' = [new_active EXCEPT ![node] = activate_cycles_node(node)]
       /\ visited' = visited \cup {node}
  /\ UNCHANGED <<simInputs, pc, iter, active, active_nodes, history>>
  /\ UNCHANGED nonSimVars

AC_EndStep ==
  /\ pc = "node"
  /\ sim = "activate_cycles"
  /\ visited = G_nodes
  /\ active' = new_active
  /\ history' = Append(history, new_active)
  /\ iter' = iter + 1
  /\ pc' = "for"
  /\ UNCHANGED <<simInputs, new_active, visited, active_nodes>>
  /\ UNCHANGED nonSimVars

AC_Return ==
  /\ pc = "for"
  /\ sim = "activate_cycles"
  /\ iter >= steps
  /\ pc' = "done"
  /\ UNCHANGED <<simInputs, iter, active, new_active, visited, active_nodes, history>>
  /\ UNCHANGED nonSimVars

\* ---------------------------------------------------- simulate_activation
\* snapshot = {node: (node in active_nodes) for node in G.nodes}
snapshot_of(nodes) == [n \in G_nodes |-> n \in nodes]

\* nodes with an incoming excitatory edge whose source is active in snapshot
excited(snapshot) ==
  {node \in G_nodes :
     \E e \in G_edges : e[2] = node /\ snapshot[e[1]] /\ e[3] = "excitatory"}

\* mutant: the inhibitory edge silences its source instead of its target
inhibited_sources(snapshot) ==
  {e[1] : e \in {x \in G_edges : x[3] = "inhibitory" /\ snapshot[x[1]]}}

\* targets of the inhibitory edges whose source is active in snapshot
inhibited(snapshot) ==
  {e[2] : e \in {x \in G_edges : x[3] = "inhibitory" /\ snapshot[x[1]]}}

\* activation_history = []; active_nodes = set(cycles[0])
SA_Enter ==
  /\ pc = "call"
  /\ sim = "simulate_activation"
  /\ cycles # <<>>
  /\ history' = <<>>
  /\ active_nodes' = initial_active_neurons
  /\ pc' = "for"
  /\ UNCHANGED <<simInputs, iter, active, new_active, visited>>
  /\ UNCHANGED nonSimVars

\* cycles[0] of an empty list raises IndexError
SA_IndexError ==
  /\ pc = "call"
  /\ sim = "simulate_activation"
  /\ cycles = <<>>
  /\ pc' = "IndexError"
  /\ UNCHANGED <<simInputs, iter, active, new_active, visited, active_nodes, history>>
  /\ UNCHANGED nonSimVars

\* one iteration of "for step in range(ACTIVATION_STEPS)"
SA_Step ==
  /\ pc = "for"
  /\ sim = "simulate_activation"
  /\ iter < ACTIVATION_STEPS
  /\ LET snapshot == snapshot_of(active_nodes)
     IN  /\ history' = Append(history, snapshot)
         /\ active_nodes' = excited(snapshot) \ inhibited(snapshot)
  /\ iter' = iter + 1
  /\ UNCHANGED <<simInputs, pc, active, new_active, visited>>
  /\ UNCHANGED nonSimVars

\* return activation_history
SA_Return ==
  /\ pc = "for"
  /\ sim = "simulate_activation"
  /\ iter >= ACTIVATION_STEPS
  /\ pc' = "done"
  /\ UNCHANGED <<simInputs, iter, active, new_active, visited, active_nodes, history>>
  /\ UNCHANGED nonSimVars

Next ==
  \/ MB_Enter \/ MB_BeginStep \/ MB_VisitNode \/ MB_EndStep \/ MB_Return
  \/ AC_Enter \/ AC_BeginStep \/ AC_VisitNode \/ AC_EndStep \/ AC_Return
  \/ SA_Enter \/ SA_IndexError \/ SA_Step \/ SA_Return

Spec == Init /\ [][Next]_vars

\* ------------------------------------------- create_mini_brain, step by step
\* neuron_thresholds as a caller may pass it: None, or a dict giving one
\* neuron (of the cycles or not) a threshold
ThresholdArgs ==
  {None} \cup {Given([n \in {m} |-> k]) : m \in Names, k \in 0..MaxThreshold}

\* no simulator is running
IdleSim ==
  /\ sim = "none"
  /\ initial_active_neurons = {}
  /\ steps = 0
  /\ inhibition_threshold = 0
  /\ pc = "idle"
  /\ iter = 0
  /\ active = EmptyDict
  /\ new_active = EmptyDict
  /\ visited = {}
  /\ active_nodes = {}
  /\ history = <<>>

\* G = nx.DiGraph()
InitBuild ==
  /\ IdleSim
  /\ IdleDetect
  /\ IdleHubs
  /\ cycles \in CycleChoices
  /\ additional_edges \in SeqsUpTo(EdgeEntries, MaxAdditional)
  /\ neuron_thresholds \in ThresholdArgs
  \* the two loops over these arguments do not interact: a dict of
  \* thresholds is combined with at most one additional edge
  /\ neuron_thresholds = None \/ Len(additional_edges) <= 1
  /\ bpc = "add_nodes"
  /\ next_edge = 1
  /\ calls = <<>>
  /\ G_nodes = {}
  /\ G_edges = {}
  /\ G_threshold = EmptyDict

\* for cycle in cycles: G.add_nodes_from(cycle)
B_AddNodes ==
  /\ bpc = "add_nodes"
  /\ G_nodes' = cycle_nodes(cycles)
  /\ bpc' = "thresholds"
  /\ UNCHANGED <<buildInputs, next_edge, calls, G_edges, G_threshold>>
  /\ UNCHANGED nonBuildVars

\* the default thresholds, then G.nodes[node]["threshold"] = threshold for
\* every entry; G.nodes[node] raises KeyError for a node not in the graph
B_StoreThresholds ==
  /\ bpc = "thresholds"
  /\ LET d == stored_thresholds(cycles, neuron_thresholds)
     IN  IF DOMAIN d \subseteq G_nodes
         THEN /\ G_threshold' = d
              /\ bpc' = "cycle_edges"
         ELSE /\ G_threshold' = G_threshold
              /\ bpc' = "KeyError"
  /\ UNCHANGED <<buildInputs, next_edge, calls, G_nodes, G_edges>>
  /\ UNCHANGED nonBuildVars

\* G.add_edge(u, v, type="excitatory") for the next edge of the cycles
B_AddCycleEdge ==
  /\ bpc = "cycle_edges"
  /\ next_edge <= Len(all_cycle_edges(cycles))
  /\ LET e == all_cycle_edges(cycles)[next_edge]
     IN  /\ G_edges' = add_edge(G_edges, e[1], e[2], e[3])
         /\ G_nodes' = add_edge_nodes(G_nodes, e[1], e[2])
         /\ calls' = Append(calls, e)
  /\ next_edge' = next_edge + 1
  /\ UNCHANGED <<buildInputs, bpc, G_threshold>>
  /\ UNCHANGED nonBuildVars

\* the loop over the cycles is exhausted
B_CycleEdgesDone ==
  /\ bpc = "cycle_edges"
  /\ next_edge > Len(all_cycle_edges(cycles))
  /\ bpc' = "additional_edges"
  /\ next_edge' = 1
  /\ UNCHANGED <<buildInputs, calls, G_nodes, G_edges, G_threshold>>
  /\ UNCHANGED nonBuildVars

\* mutant: an additional edge does not replace an edge the graph already has
B_AddAdditionalEdge_keep_existing ==
  /\ bpc = "additional_edges"
  /\ next_edge <= Len(additional_edges)
  /\ LET e == additional_edges[next_edge]
     IN  /\ G_edges' = IF \E x \in G_edges : x[1] = e[1] /\ x[2] = e[2]
                       THEN G_edges
                       ELSE add_edge(G_edges, e[1], e[2], e[3])
         /\ G_nodes' = add_edge_nodes(G_nodes, e[1], e[2])
         /\ calls' = Append(calls, e)
  /\ next_edge' = next_edge + 1
  /\ UNCHANGED <<buildInputs, bpc, G_threshold>>
  /\ UNCHANGED nonBuildVars

\* for u, v, edge_type in additional_edges: G.add_edge(u, v, type=edge_type)
B_AddAdditionalEdge ==
  /\ bpc = "additional_edges"
  /\ next_edge <= Len(additional_edges)
  /\ LET e == additional_edges[next_edge]
     IN  /\ G_edges' = add_edge(G_edges, e[1], e[2], e[3])
         /\ G_nodes' = add_edge_nodes(G_nodes, e[1], e[2])
         /\ calls' = Append(calls, e)
  /\ next_edge' = next_edge + 1
  /\ UNCHANGED <<buildInputs, bpc, G_threshold>>
  /\ UNCHANGED nonBuildVars

\* return G
B_Return ==
  /\ bpc = "additional_edges"
  /\ next_edge > Len(additional_edges)
  /\ bpc' = "returned"
  /\ UNCHANGED <<buildInputs, next_edge, calls, G_nodes, G_edges, G_threshold>>
  /\ UNCHANGED nonBuildVars

NextBuild ==
  \/ B_AddNodes \/ B_StoreThresholds \/ B_AddCycleEdge \/ B_CycleEdgesDone
  \/ B_AddAdditionalEdge \/ B_Return

SpecBuild == InitBuild /\ [][NextBuild]_vars

\* ---------------------------------------------------------- detect_cycles
\* the order in which the search takes the start nodes
Idx == [n \in Names |-> CASE n = "A" -> 1 [] n = "B" -> 2 [] n = "C" -> 3]

successors(u) == {e[2] : e \in {x \in d_edges : x[1] = u}}

Top == stack[Len(stack)]
Pop == SubSeq(stack, 1, Len(stack) - 1)

\* the nodes of the current path, from the start node on
path == [i \in 1..Len(stack) |-> stack[i].node]

\* mutant: cycles of exactly max_length nodes are dropped
keeps_strict(cycle) ==
  IF d_entry = "analyze_brain_cycles" THEN Len(cycle) < max_length ELSE TRUE

\* the comprehension's filter: len(cycle) <= max_length; the detect_cycles of
\* scripts/simulate_cycles.py keeps every cycle
keeps(cycle) ==
  IF d_entry = "analyze_brain_cycles" THEN Len(cycle) <= max_length ELSE TRUE

NoGraph ==
  /\ G_nodes = {}
  /\ G_edges = {}
  /\ G_threshold = EmptyDict

InitDetect ==
  /\ IdleSim
  /\ IdleBuild
  /\ IdleHubs
  /\ NoGraph
  /\ d_edges \in SUBSET (Names \X Names)
  /\ \/ d_entry = "analyze_brain_cycles" /\ max_length \in 1..MaxCycleLength
     \/ d_entry = "simulate_cycles" /\ max_length = 0
  /\ d_pc = "call"
  /\ alarm = "off"
  /\ roots = Names
  /\ stack = <<>>
  /\ found = <<>>
  /\ d_result = <<>>
  /\ cycle_stats = <<>>
  /\ timed_out = FALSE

\* signal.signal(signal.SIGALRM, timeout_handler); signal.alarm(time_limit)
D_Arm ==
  /\ d_pc = "call"
  /\ d_entry = "analyze_brain_cycles"
  /\ alarm' = "pending"
  /\ d_pc' = "search"
  /\ UNCHANGED <<detectInputs, roots, stack, found, d_result, cycle_stats, timed_out>>
  /\ UNCHANGED <<nonDetectVars>>

\* scripts/simulate_cycles.py: list(nx.simple_cycles(G)) starts, no timer
DS_Call ==
  /\ d_pc = "call"
  /\ d_entry = "simulate_cycles"
  /\ d_pc' = "search"
  /\ UNCHANGED <<detectInputs, alarm, roots, stack, found, d_result, cycle_stats, timed_out>>
  /\ UNCHANGED <<nonDetectVars>>

\* nx.simple_cycles: the search begins at the next start node
D_NextRoot ==
  /\ d_pc = "search"
  /\ stack = <<>>
  /\ roots # {}
  /\ LET r == CHOOSE n \in roots : \A m \in roots : Idx[n] <= Idx[m]
     IN  /\ stack' = <<[node |-> r, todo |-> successors(r)]>>
         /\ roots' = roots \ {r}
  /\ UNCHANGED <<detectInputs, d_pc, alarm, found, d_result, cycle_stats, timed_out>>
  /\ UNCHANGED <<nonDetectVars>>

\* nx.simple_cycles: the path is extended by one successor edge; a successor
\* that closes the path back to its start yields the path as a cycle, which
\* the comprehension keeps when len(cycle) <= max_length; nodes on the path
\* and nodes before the start node are not entered
D_Expand ==
  /\ d_pc = "search"
  /\ stack # <<>>
  /\ \E w \in Top.todo :
       LET shrunk == Append(Pop, [node |-> Top.node, todo |-> Top.todo \ {w}])
       IN  IF w = stack[1].node
           THEN /\ stack' = shrunk
                /\ found' = IF keeps(path) THEN Append(found, path) ELSE found
           ELSE IF Idx[w] > Idx[stack[1].node] /\ w \notin Range(path)
           THEN /\ stack' = Append(shrunk, [node |-> w, todo |-> successors(w)])
                /\ found' = found
           ELSE /\ stack' = shrunk
                /\ found' = found
  /\ UNCHANGED <<detectInputs, d_pc, alarm, roots, d_result, cycle_stats, timed_out>>
  /\ UNCHANGED <<nonDetectVars>>

\* nx.simple_cycles: a node with no successor left to try is left
D_Backtrack ==
  /\ d_pc = "search"
  /\ stack # <<>>
  /\ Top.todo = {}
  /\ stack' = Pop
  /\ UNCHANGED <<detectInputs, d_pc, alarm, roots, found, d_result, cycle_stats, timed_out>>
  /\ UNCHANGED <<nonDetectVars>>

\* mutant: the pending alarm is not cancelled when the search completes
D_Exhausted_alarm_left ==
  /\ d_pc = "search"
  /\ d_entry = "analyze_brain_cycles"
  /\ stack = <<>>
  /\ roots = {}
  /\ d_pc' = "stats"
  /\ UNCHANGED <<detectInputs, alarm, roots, stack, found, d_result, cycle_stats, timed_out>>
  /\ UNCHANGED <<nonDetectVars>>

\* the generator is exhausted: cycles = [...]; signal.alarm(0)
D_Exhausted ==
  /\ d_pc = "search"
  /\ d_entry = "analyze_brain_cycles"
  /\ stack = <<>>
  /\ roots = {}
  /\ alarm' = "off"
  /\ d_pc' = "stats"
  /\ UNCHANGED <<detectInputs, roots, stack, found, d_result, cycle_stats, timed_out>>
  /\ UNCHANGED <<nonDetectVars>>

\* SIGALRM is delivered while the search runs: timeout_handler raises
\* TimeoutException, the comprehension is abandoned
D_Timeout ==
  /\ d_pc = "search"
  /\ alarm = "pending"
  /\ alarm' = "fired"
  /\ timed_out' = TRUE
  /\ roots' = {}
  /\ stack' = <<>>
  /\ found' = <<>>
  /\ d_pc' = "except"
  /\ UNCHANGED <<detectInputs, d_result, cycle_stats>>
  /\ UNCHANGED <<nonDetectVars>>

\* except TimeoutException: return []
D_ReturnEmpty ==
  /\ d_pc = "except"
  /\ d_result' = <<>>
  /\ d_pc' = "returned"
  /\ UNCHANGED <<detectInputs, alarm, roots, stack, found, cycle_stats, timed_out>>
  /\ UNCHANGED <<nonDetectVars>>

\* cycle_stats.json is written, then return cycles
D_SaveAndReturn ==
  /\ d_pc = "stats"
  /\ cycle_stats' = <<[total_cycles |-> Len(found),
                      cycle_lengths |-> [i \in 1..Len(found) |-> Len(found[i])]]>>
  /\ d_result' = found
  /\ d_pc' = "returned"
  /\ UNCHANGED <<detectInputs, alarm, roots, stack, found, timed_out>>
  /\ UNCHANGED <<nonDetectVars>>

\* scripts/simulate_cycles.py: return list(nx.simple_cycles(G))
DS_Return ==
  /\ d_pc = "search"
  /\ d_entry = "simulate_cycles"
  /\ stack = <<>>
  /\ roots = {}
  /\ d_result' = found
  /\ d_pc' = "returned"
  /\ UNCHANGED <<detectInputs, alarm, roots, stack, found, cycle_stats, timed_out>>
  /\ UNCHANGED <<nonDetectVars>>

NextDetect ==
  \/ D_Arm \/ DS_Call \/ D_NextRoot \/ D_Expand \/ D_Backtrack \/ D_Exhausted
  \/ D_Timeout \/ D_ReturnEmpty \/ D_SaveAndReturn \/ DS_Return

SpecDetect == InitDetect /\ [][NextDetect]_vars

\* the interpreter keeps executing the call: some step of it is always taken
\* while one is possible
SpecDetectFair == SpecDetect /\ WF_vars(NextDetect)

\* --------------------------------------------------- find_overlapping_hubs
RECURSIVE Flatten(_)
\* node for cycle in cycles for node in cycle
Flatten(cs) == IF cs = <<>> THEN <<>> ELSE Head(cs) \o Flatten(Tail(cs))

RECURSIVE FirstOccurrences(_, _)
\* the keys of the Counter in insertion order
FirstOccurrences(list, seen) ==
  IF list = <<>> THEN <<>>
  ELSE IF Head(list) \in seen THEN FirstOccurrences(Tail(list), seen)
  ELSE <<Head(list)>> \o FirstOccurrences(Tail(list), seen \cup {Head(list)})

\* Counter(node for cycle in cycles for node in cycle)
Counter(list) ==
  [n \in Range(list) |-> Cardinality({i \in 1..Len(list) : list[i] = n})]

RECURSIVE Select(_, _)
Select(list, counts) ==
  IF list = <<>> THEN <<>>
  ELSE IF counts[Head(list)] > HUB_COUNT THEN <<Head(list)>> \o Select(Tail(list), counts)
  ELSE Select(Tail(list), counts)

\* the simple cycles over the node names, each from its first node in Idx order
CanonicalCycles ==
  {c \in SeqsUpTo(Names, Cardinality(Names)) :
     /\ c # <<>>
     /\ \A i, j \in 1..Len(c) : i # j => c[i] # c[j]
     /\ \A i \in 1..Len(c) : Idx[c[1]] <= Idx[c[i]]}

InitHubs ==
  /\ IdleSim
  /\ IdleBuild
  /\ IdleDetect
  /\ NoGraph
  /\ h_cycles \in SeqsUpTo(CanonicalCycles, MaxCycles)
  /\ min_participation \in 1..MaxParticipation
  /\ h_pc = "call"
  /\ node_counts = EmptyDict
  /\ overlapping_nodes = <<>>

\* node_counts = Counter(node for cycle in cycles for node in cycle)
H_Count ==
  /\ h_pc = "call"
  /\ node_counts' = Counter(Flatten(h_cycles))
  /\ h_pc' = "counted"
  /\ UNCHANGED <<h_cycles, min_participation, overlapping_nodes>>
  /\ UNCHANGED <<nonHubVars>>

\* overlapping_nodes = [node for node, count in node_counts.items() if count > 3]
H_Select ==
  /\ h_pc = "counted"
  /\ overlapping_nodes' = Select(FirstOccurrences(Flatten(h_cycles), {}), node_counts)
  /\ h_pc' = "selected"
  /\ UNCHANGED <<h_cycles, min_participation, node_counts>>
  /\ UNCHANGED <<nonHubVars>>

\* hub_nodes.json is written; return overlapping_nodes
H_Return ==
  /\ h_pc = "selected"
  /\ h_pc' = "returned"
  /\ UNCHANGED <<h_cycles, min_participation, node_counts, overlapping_nodes>>
  /\ UNCHANGED <<nonHubVars>>

NextHubs == H_Count \/ H_Select \/ H_Return

SpecHubs == InitHubs /\ [][NextHubs]_vars

\* ======================================================= the properties
\* the complete state the initial condition describes, over the graph's nodes
InitialState == [n \in G_nodes |-> n \in initial_active_neurons]

\* the state entry t of the trace was computed from
PrevState(t) == IF t = 1 THEN InitialState ELSE history[t - 1]

\* the last complete state: the one the step in progress is computed from
LastState == IF history = <<>> THEN InitialState ELSE history[Len(history)]

\* E(v), I(v) and threshold(v) of the transition rule, from the graph
E(prev, v) == Cardinality({u \in G_nodes : <<u, v, "excitatory">> \in G_edges /\ prev[u]})
I(prev, v) == Cardinality({u \in G_nodes : <<u, v, "inhibitory">> \in G_edges /\ prev[u]})
threshold(v) == IF v \in DOMAIN G_threshold THEN G_threshold[v] ELSE 1

\* next_active(v) = (E(v) >= threshold(v)) AND (I(v) == 0)
CanonicalRule(prev, v) == E(prev, v) >= threshold(v) /\ I(prev, v) = 0

\* the count-based variant: one excitatory input, fewer than
\* inhibition_threshold inhibitory inputs
CountRule(prev, v) == E(prev, v) > 0 /\ I(prev, v) < inhibition_threshold

RuleOf(prev, v) ==
  IF sim = "activate_cycles" THEN CountRule(prev, v) ELSE CanonicalRule(prev, v)

OneTransition(prev) == [v \in G_nodes |-> RuleOf(prev, v)]

RECURSIVE Iterate(_, _)
\* the states after 1, 2, ..., n transitions from prev
Iterate(prev, n) ==
  IF n <= 0 THEN <<>>
  ELSE <<OneTransition(prev)>> \o Iterate(OneTransition(prev), n - 1)

StepLoop == sim \in {"activate_mini_brain", "activate_cycles"}

\* C1: in every step of activate_mini_brain a node is active in the new state
\* iff its count of previously-active excitatory predecessors is at least its
\* threshold and its count of previously-active inhibitory predecessors is 0.
C1_ThresholdRule ==
  sim = "activate_mini_brain" =>
    \A t \in 1..Len(history) : \A v \in G_nodes :
      history[t][v] <=> (E(PrevState(t), v) >= threshold(v) /\ I(PrevState(t), v) = 0)

\* a step in which a node of threshold 2 had two active excitatory
\* predecessors and one active inhibitory predecessor, and is inactive
C1_Witness ==
  /\ sim = "activate_mini_brain"
  /\ \E t \in 1..Len(history) : \E v \in G_nodes :
       /\ threshold(v) = 2
       /\ E(PrevState(t), v) = 2
       /\ I(PrevState(t), v) = 1
       /\ ~history[t][v]

\* the boundary below the threshold: k-1 excitatory inputs, no inhibition
C1_Case_BelowThreshold ==
  /\ sim = "activate_mini_brain"
  /\ \E t \in 1..Len(history) : \E v \in G_nodes :
       /\ threshold(v) = 2 /\ E(PrevState(t), v) = 1 /\ I(PrevState(t), v) = 0
       /\ ~history[t][v]

\* the boundary at the threshold: exactly k excitatory inputs, no inhibition
C1_Case_AtThreshold ==
  /\ sim = "activate_mini_brain"
  /\ \E t \in 1..Len(history) : \E v \in G_nodes :
       /\ threshold(v) = 2 /\ E(PrevState(t), v) = 2 /\ I(PrevState(t), v) = 0
       /\ history[t][v]

TwoCycle ==
  /\ G_nodes = {"A", "B"}
  /\ G_edges = {<<"A", "B", "excitatory">>, <<"B", "A", "excitatory">>}
  /\ \A n \in G_nodes : threshold(n) = 1

\* C2: the update is synchronous: while a step is being computed the previous
\* state is left alone, every value already computed is the rule applied to the
\* complete previous state whatever the visiting order, and the nodes not yet
\* visited are still inactive; on the 2-cycle A<->B with only A initially
\* active the first entry has exactly B active.
C2_Synchronous ==
  /\ (pc = "node" /\ StepLoop) =>
       /\ active = LastState
       /\ \A v \in visited : new_active[v] = RuleOf(LastState, v)
       /\ \A v \in G_nodes \ visited : new_active[v] = FALSE
  /\ (StepLoop /\ TwoCycle /\ initial_active_neurons \cap G_nodes = {"A"}
        /\ Len(history) >= 1) =>
       history[1] = [n \in G_nodes |-> n = "B"]

\* on the 2-cycle with only A active, B has been computed (active) and A is
\* still to be visited
C2_Witness ==
  /\ sim = "activate_mini_brain"
  /\ TwoCycle
  /\ initial_active_neurons = {"A"}
  /\ pc = "node"
  /\ iter = 0
  /\ visited = {"B"}
  /\ new_active["B"]

\* C3 as stated: for every steps >= 0 the returned trace has exactly steps
\* entries and its first entry is one transition away from the initial
\* condition, for every simulator.
C3_TraceShape_AllSimulators ==
  (pc = "done" /\ steps >= 0) =>
    /\ Len(history) = steps
    /\ steps >= 1 => history[1] = OneTransition(InitialState)

\* C3 (amended): the traces of activate_mini_brain and activate_cycles have
\* exactly steps entries for every steps >= 0 and start one transition after
\* the initial condition; simulate_activation, given at least one cycle,
\* returns ACTIVATION_STEPS entries and its first entry is the initial
\* condition set(cycles[0]) itself.
C3_TraceShape ==
  /\ (pc = "done" /\ StepLoop /\ steps >= 0) =>
       /\ Len(history) = steps
       /\ steps >= 1 => history[1] = OneTransition(InitialState)
  /\ (pc = "done" /\ sim = "simulate_activation") =>
       /\ Len(history) = ACTIVATION_STEPS
       /\ history[1] = InitialState

\* activate_mini_brain has returned a trace of MaxSteps entries whose first
\* entry differs from the initial condition
C3_Witness ==
  /\ pc = "done"
  /\ sim = "activate_mini_brain"
  /\ steps = MaxSteps
  /\ Len(history) = MaxSteps
  /\ history[1] # InitialState

RECURSIVE Orbit(_, _)
\* the nodes reached from u in at most n hops along excitatory edges
Orbit(u, n) ==
  IF n = 0 THEN {u}
  ELSE LET o == Orbit(u, n - 1)
       IN  o \cup {e[2] : e \in {x \in G_edges : x[1] \in o}}

\* the graph is one all-excitatory directed ring over all of its nodes, every
\* threshold 1
ExcitatoryRing ==
  /\ G_nodes # {}
  /\ Cardinality(G_edges) = Cardinality(G_nodes)
  /\ \A e \in G_edges : e[3] = "excitatory"
  /\ \A u \in G_nodes : Cardinality({e \in G_edges : e[1] = u}) = 1
  /\ \A u \in G_nodes : Cardinality({e \in G_edges : e[2] = u}) = 1
  /\ \A u \in G_nodes : Orbit(u, Cardinality(G_nodes)) = G_nodes
  /\ \A u \in G_nodes : threshold(u) = 1

Ring3 ==
  /\ G_nodes = {"A", "B", "C"}
  /\ G_edges = {<<"A", "B", "excitatory">>, <<"B", "C", "excitatory">>,
                <<"C", "A", "excitatory">>}
  /\ \A u \in G_nodes : threshold(u) = 1

ActiveIn(state) == {n \in DOMAIN state : state[n]}

\* C4: on the excitatory ring A->B->C->A with thresholds 1, initial active
\* set {A} and steps = 3, activate_mini_brain returns exactly
\* [{B}, {C}, {A}]; on any all-excitatory ring with thresholds 1 and one
\* initially active node every entry has exactly one active node, the
\* successor of the node active one step earlier.
C4_RingChase ==
  /\ (sim = "activate_mini_brain" /\ Ring3 /\ initial_active_neurons = {"A"}
        /\ steps = 3 /\ pc = "done") =>
       history = << [n \in G_nodes |-> n = "B"],
                    [n \in G_nodes |-> n = "C"],
                    [n \in G_nodes |-> n = "A"] >>
  /\ (sim = "activate_mini_brain" /\ history # <<>>
        /\ Cardinality(initial_active_neurons \cap G_nodes) = 1
        /\ ExcitatoryRing) =>
       \A t \in 1..Len(history) :
         \E u, v \in G_nodes :
           /\ ActiveIn(PrevState(t)) = {u}
           /\ <<u, v, "excitatory">> \in G_edges
           /\ ActiveIn(history[t]) = {v}

\* the three-step run on the ring A->B->C->A has returned, A active again
C4_Witness ==
  /\ sim = "activate_mini_brain"
  /\ Ring3
  /\ initial_active_neurons = {"A"}
  /\ steps = 3
  /\ pc = "done"
  /\ history[3]["A"]

\* C8: a call with steps < 0 fails with an error and returns no trace.
C8_NegativeStepsRejected ==
  (sim = "activate_mini_brain" /\ steps < 0) => pc # "done"

\* C9: the returned trace is a function of the graph, the initial active set
\* and the step count alone: whatever order the nodes were visited in, it is
\* the rule iterated steps times from the initial condition.
C9_Deterministic ==
  (pc = "done" /\ StepLoop) => history = Iterate(InitialState, steps)

\* a run of at least two steps has returned a trace whose entries differ
C9_Witness ==
  /\ pc = "done"
  /\ StepLoop
  /\ Len(history) >= 2
  /\ history[1] # history[2]
  /\ Cardinality(G_nodes) = 3

\* ------------------------------------------------------ create_mini_brain
\* the polarity of the last entry of list for the pair (u, v)
LastTypeFor(list, u, v) ==
  LET idx == {i \in 1..Len(list) : list[i][1] = u /\ list[i][2] = v}
  IN  list[CHOOSE i \in idx : \A j \in idx : j <= i][3]

\* some entry of list is for the pair (u, v)
Mentions(list, u, v) == \E i \in 1..Len(list) : list[i][1] = u /\ list[i][2] = v

EdgesFor(u, v) == {e \in G_edges : e[1] = u /\ e[2] = v}

\* the pair (u, v) is an edge of one of the cycles
CycleEdge(u, v) ==
  \E k \in 1..Len(cycles) : \E i \in 1..Len(cycles[k]) :
    cycles[k][i] = u /\ cycles[k][(i % Len(cycles[k])) + 1] = v

\* C10: after any sequence of edge insertions the graph holds at most one
\* edge per ordered pair, with the polarity of the most recent insertion for
\* the pair; in the graph create_mini_brain returns, a pair named in
\* additional_edges has the polarity of its last entry there (also when it is
\* a cycle edge), and every other cycle edge is excitatory.
C10_LastWriteWins ==
  /\ \A u, v \in Names :
       /\ Cardinality(EdgesFor(u, v)) <= 1
       /\ Mentions(calls, u, v) => EdgesFor(u, v) = {<<u, v, LastTypeFor(calls, u, v)>>}
       /\ ~Mentions(calls, u, v) => EdgesFor(u, v) = {}
  /\ bpc = "returned" =>
       \A u, v \in Names :
         /\ Mentions(additional_edges, u, v) =>
              EdgesFor(u, v) = {<<u, v, LastTypeFor(additional_edges, u, v)>>}
         /\ (CycleEdge(u, v) /\ ~Mentions(additional_edges, u, v)) =>
              EdgesFor(u, v) = {<<u, v, "excitatory">>}

\* create_mini_brain has returned after two additional entries for one cycle
\* edge, the first excitatory and the last inhibitory
C10_Witness ==
  /\ bpc = "returned"
  /\ \E u, v \in Names :
       /\ CycleEdge(u, v)
       /\ additional_edges = <<<<u, v, "excitatory">>, <<u, v, "inhibitory">>>>
       /\ EdgesFor(u, v) = {<<u, v, "inhibitory">>}

\* the graph built step by step is the graph create_mini_brain is taken to
\* return where the simulators' inputs are drawn
BuildAgrees ==
  bpc = "returned" =>
    [nodes |-> G_nodes, edges |-> G_edges, threshold |-> G_threshold]
      = create_mini_brain(cycles, additional_edges, neuron_thresholds)

\* C14: a run of activate_mini_brain changes neither the graph (nodes, edges
\* with their polarities, thresholds) nor the caller's initial_active
\* collection; an entry of the trace, once appended, is never changed by a
\* later step; and every entry's key set is exactly the graph's node set.
C14_Frame ==
  /\ [][sim = "activate_mini_brain" =>
          /\ UNCHANGED <<G_nodes, G_edges, G_threshold, initial_active_neurons>>
          /\ Len(history') >= Len(history)
          /\ \A t \in 1..Len(history) : history'[t] = history[t]]_vars
  /\ [](sim = "activate_mini_brain" =>
          \A t \in 1..Len(history) : DOMAIN history[t] = G_nodes)

\* activate_mini_brain has returned a trace of at least two different entries
\* on a graph with a node that stores no threshold, called with an initial
\* neuron that is not a node of the graph
C14_Witness ==
  /\ pc = "done"
  /\ sim = "activate_mini_brain"
  /\ Len(history) >= 2
  /\ history[1] # history[2]
  /\ G_nodes \ DOMAIN G_threshold # {}
  /\ initial_active_neurons \ G_nodes # {}

\* the state after s steps: the initial condition for s = 0
StateAt(s) == IF s = 0 THEN InitialState ELSE history[s]

\* every node's effective threshold is at least 1
ThresholdsPositive == \A v \in G_nodes : threshold(v) >= 1

\* C15: in activate_mini_brain on a graph whose thresholds are all >= 1, once
\* no node is active (at step s or in the initial condition) no node is
\* active at any later step, and a node none of whose excitatory
\* predecessors was active in the previous state is inactive in the next
\* one, whether or not it was active itself.
C15_QuiescenceAbsorbing ==
  (sim = "activate_mini_brain" /\ ThresholdsPositive) =>
    /\ \A s \in 0..Len(history) : \A t \in 1..Len(history) :
         (s < t /\ ActiveIn(StateAt(s)) = {}) => ActiveIn(history[t]) = {}
    /\ \A t \in 1..Len(history) : \A v \in G_nodes :
         E(StateAt(t - 1), v) = 0 => ~history[t][v]

\* a run on a graph with thresholds >= 1 in which an active node without an
\* active excitatory predecessor went silent, the network fell quiet and a
\* further step was simulated
C15_Witness ==
  /\ pc = "done"
  /\ sim = "activate_mini_brain"
  /\ ThresholdsPositive
  /\ Len(history) >= 2
  /\ \E v \in G_nodes : InitialState[v] /\ E(InitialState, v) = 0
  /\ ActiveIn(history[1]) = {}
  /\ G_edges # {}

\* the same statement without the condition on the thresholds
C15_AnyThreshold ==
  sim = "activate_mini_brain" =>
    \A t \in 1..Len(history) :
      ActiveIn(StateAt(t - 1)) = {} => ActiveIn(history[t]) = {}

\* the canonical rule with every threshold equal to 1
CanonicalOnes(prev) == [v \in G_nodes |-> E(prev, v) >= 1 /\ I(prev, v) = 0]

RECURSIVE CanonicalTrace(_, _)
\* the trace of n steps of the canonical rule with thresholds 1 from prev
CanonicalTrace(prev, n) ==
  IF n <= 0 THEN <<>>
  ELSE <<CanonicalOnes(prev)>> \o CanonicalTrace(CanonicalOnes(prev), n - 1)

\* C16: activate_cycles sets a node active iff it has at least one active
\* excitatory predecessor and fewer than inhibition_threshold active
\* inhibitory predecessors; with inhibition_threshold = 1 its trace is, for
\* every graph and step count, the trace of the canonical rule with all
\* thresholds 1 from the same initial active set.
C16_VariantAgreesAtOne ==
  sim = "activate_cycles" =>
    /\ \A t \in 1..Len(history) : \A v \in G_nodes :
         history[t][v] <=> (E(StateAt(t - 1), v) >= 1
                              /\ I(StateAt(t - 1), v) < inhibition_threshold)
    /\ (pc = "done" /\ inhibition_threshold = 1) =>
         history = CanonicalTrace(InitialState, steps)

\* activate_cycles with inhibition_threshold = 1 has returned a trace in
\* whose first step a node with an active excitatory and an active
\* inhibitory predecessor was silenced while another node fired
C16_Witness ==
  /\ pc = "done"
  /\ sim = "activate_cycles"
  /\ inhibition_threshold = 1
  /\ Len(history) >= 2
  /\ \E v \in G_nodes :
       /\ E(InitialState, v) = 1
       /\ I(InitialState, v) = 1
       /\ ~history[1][v]
  /\ ActiveIn(history[1]) # {}

\* activate_cycles with inhibition_threshold = 2 has returned a trace that
\* differs from the canonical one: a node with one active excitatory and one
\* active inhibitory predecessor is active in it
C16_CanDiffer ==
  /\ pc = "done"
  /\ sim = "activate_cycles"
  /\ inhibition_threshold = 2
  /\ history # CanonicalTrace(InitialState, steps)
  /\ \E v \in G_nodes :
       /\ E(InitialState, v) = 1
       /\ I(InitialState, v) = 1
       /\ history[1][v]
       /\ ~CanonicalOnes(InitialState)[v]

\* C17: simulate_activation is the canonical rule with thresholds 1 shifted
\* by one step: its first entry is the initial active set S itself and entry
\* t + 1 is entry t of the canonical trace from S, for every t + 1 below
\* ACTIVATION_STEPS.
C17_ShiftedByOne ==
  sim = "simulate_activation" =>
    /\ history # <<>> => history[1] = InitialState
    /\ \A t \in 1..(Len(history) - 1) : history[t + 1] = CanonicalOnes(history[t])
    /\ pc = "done" =>
         /\ Len(history) = ACTIVATION_STEPS
         /\ Tail(history) = CanonicalTrace(InitialState, ACTIVATION_STEPS - 1)

\* simulate_activation has returned from a start in which an active
\* inhibitory edge silenced an excited node, and its second and third
\* entries differ
C17_Witness ==
  /\ pc = "done"
  /\ sim = "simulate_activation"
  /\ \E v \in G_nodes : E(InitialState, v) >= 1 /\ I(InitialState, v) >= 1
  /\ history[2] # history[3]
  /\ ActiveIn(history[2]) # {}

\* C11: after create_mini_brain returns, every node of the graph has an
\* effective threshold (the stored one, or the default 1 the simulator reads
\* for a node that stores none) that is at least 1, and no threshold <= 0 is
\* stored.
C11_ThresholdsPositive ==
  bpc = "returned" =>
    /\ \A n \in G_nodes : activation_threshold(n) >= 1
    /\ \A n \in DOMAIN G_threshold : G_threshold[n] >= 1

\* ---------------------------------------------------------- detect_cycles
\* c is a simple directed cycle of the graph searched: no node twice, every
\* consecutive pair and the last-to-first pair an edge
IsSimpleCycle(c) ==
  /\ c # <<>>
  /\ \A i, j \in 1..Len(c) : i # j => c[i] # c[j]
  /\ \A i \in 1..Len(c) : <<c[i], c[(i % Len(c)) + 1]>> \in d_edges

\* the same cycle written from each of its nodes
Rotations(c) ==
  {[i \in 1..Len(c) |-> c[((i + k - 1) % Len(c)) + 1]] : k \in 0..(Len(c) - 1)}

NodeSeqs == SeqsUpTo(Names, Cardinality(Names))

\* the length bound in force: scripts/simulate_cycles.py has none
LengthLimit ==
  IF d_entry = "analyze_brain_cycles" THEN max_length ELSE Cardinality(Names)

EdgesOfCycle(c) == {<<c[i], c[(i % Len(c)) + 1]>> : i \in 1..Len(c)}

Completed == d_pc = "returned" /\ ~timed_out

\* C5: when enumeration completes without timing out the result is exactly
\* the simple directed cycles of length <= max_length: every entry is one,
\* none is reported twice, none is missing; a graph that is exactly one
\* directed cycle of length n gives that one cycle when max_length >= n and
\* nothing when max_length < n.
C5_ExactlySimpleCycles ==
  Completed =>
    /\ \A i \in 1..Len(d_result) :
         IsSimpleCycle(d_result[i]) /\ Len(d_result[i]) <= LengthLimit
    /\ \A i, j \in 1..Len(d_result) : i # j => d_result[j] \notin Rotations(d_result[i])
    /\ \A c \in NodeSeqs :
         (IsSimpleCycle(c) /\ Len(c) <= LengthLimit) =>
           \E i \in 1..Len(d_result) : d_result[i] \in Rotations(c)
    /\ \A c \in CanonicalCycles :
         d_edges = EdgesOfCycle(c) =>
           IF Len(c) <= LengthLimit
           THEN Len(d_result) = 1 /\ Len(d_result[1]) = Len(c)
           ELSE d_result = <<>>

\* a completed enumeration with max_length = 2 on a graph that has a cycle of
\* three nodes besides at least two shorter ones
C5_Witness ==
  /\ Completed
  /\ d_entry = "analyze_brain_cycles"
  /\ max_length = 2
  /\ \E c \in NodeSeqs : IsSimpleCycle(c) /\ Len(c) = 3
  /\ Len(d_result) >= 2

\* C6: a run whose time budget elapsed hands the caller an outcome that
\* differs from the outcome of a completed enumeration that found no cycle
\* (the empty list).
C6_TimeoutFlagged ==
  (d_pc = "returned" /\ timed_out) => d_result # <<>>

\* C12: whether enumeration stopped by exhaustion or by timeout, the cycle
\* statistics are emitted, total_cycles is the number of entries of
\* cycle_lengths, and the entries are the lengths of the cycles found.
C12_StatsOnEveryOutcome ==
  (d_pc = "returned" /\ d_entry = "analyze_brain_cycles") =>
    /\ Len(cycle_stats) = 1
    /\ cycle_stats[1].total_cycles = Len(cycle_stats[1].cycle_lengths)
    /\ Len(cycle_stats[1].cycle_lengths) = Len(d_result)
    /\ \A i \in 1..Len(d_result) : cycle_stats[1].cycle_lengths[i] = Len(d_result[i])

\* C13: every call of detect_cycles eventually returns; once the deadline has
\* fired the search expands nothing more; and no alarm is pending when the
\* call has returned, on the exhaustion path and on the timeout path alike.
C13_EventuallyReturns ==
  /\ <>(d_pc = "returned")
  /\ [][timed_out => UNCHANGED <<roots, stack, found>>]_vars
  /\ [](d_pc = "returned" => alarm # "pending")

\* a timed search of a graph with edges was cut short by the alarm and the
\* call has returned
C13_Witness ==
  /\ d_pc = "returned"
  /\ d_entry = "analyze_brain_cycles"
  /\ d_edges # {}
  /\ timed_out
  /\ alarm = "fired"

\* --------------------------------------------------- find_overlapping_hubs
\* the number of distinct cycles of the argument that contain n
Participation(n) == Cardinality({c \in Range(h_cycles) : n \in Range(c)})

\* C7: the hubs returned are exactly the nodes contained in strictly more
\* distinct cycles than the participation minimum the caller supplies.
C7_HubsAboveMinimum ==
  h_pc = "returned" =>
    Range(overlapping_nodes) = {n \in Names : Participation(n) > min_participation}

\* C7, the example: three cycles whose only shared node is A, minimum 2
C7_Example ==
  (/\ h_pc = "returned"
   /\ h_cycles = << <<"A">>, <<"A", "B">>, <<"A", "C">> >>
   /\ min_participation = 2) =>
    Range(overlapping_nodes) = {"A"}

====
